---- MODULE Spec2Model ----
\* Model of the MedicalAssistant RAG core: the text chunker
\* (part_a/text_processor.py), the retrieval gateway (part_a/retriever.py)
\* and the answer orchestrator (part_a/rag_chain.py); and of the service
\* around it: RAGApplication.answer_question (part_a/main.py), RAGService
\* (part_b/service.py), the qa_records table (part_b/storage.py) and the
\* question endpoint (part_b/main.py).
\*
\* Strings are sequences of one-character strings, so strip(), the two
\* re.split calls and slicing are computed character by character.
EXTENDS Integers, Sequences, FiniteSets, TLC

VARIABLES
    \* ---- TextProcessor ----
    tp_pc,          \* position of the TextProcessor caller / of process()
    ctor_args,      \* arguments of the last TextProcessor(...) call
    processor,      \* the constructed object's fields, or NoProcessor
    text,           \* argument of the running / last process() call
    doc_meta,       \* document_metadata argument of that call
    paragraphs,     \* process(): paragraphs still to be visited by the for loop
    chunks,         \* process(): local `chunks`
    current_chunk,  \* process(): local `current_chunk`
    sentences,      \* _split_large_paragraph(): sentences still to be visited
    sent_chunks,    \* _split_large_paragraph(): local `chunks`
    sent_current,   \* _split_large_paragraph(): local `current_chunk`
    size_text,      \* _split_by_size(): argument `text`
    size_start,     \* _split_by_size(): local `start`
    size_chunks,    \* _split_by_size(): local `chunks`
    result,         \* value returned by the last process() call
    \* ---- VectorStoreRetriever.retrieve ----
    ret_args,       \* arguments of the last retrieve() call
    ret_index,      \* what collection.query returned to that call
    ret_outcome,    \* what that call returned or raised
    \* ---- RAGChain ----
    chain,          \* the constructed RAGChain's fields, or NoChain
    ans_question,   \* argument of the last answer() call
    ans_trace,      \* collaborator calls made by that call, in order
    ans_outcome,    \* what that call returned or raised
    \* ---- TextProcessor._apply_overlap called on its own ----
    ov_units,       \* argument `chunks` of the last _apply_overlap() call
    ov_result,      \* what that call returned
    \* ---- RAGService (part_b) ----
    rag_app,        \* RAGService.rag_app: NoApp or the RAGApplication, whose
                    \* rag_chain field is the variable `chain`
    current_document_id, \* RAGService.current_document_id
    doc_count,      \* documents loaded so far (numbers the document ids)
    storage,        \* the qa_records table: query id -> record
    clock,          \* datetime.utcnow(), one tick per stored record
    index,          \* the Chroma collection on disk: entry id -> content
    pq_pc,          \* per concurrent caller: where its process_question is
    pq_args,        \* per concurrent caller: question and query_id
    pq_answer,      \* per concurrent caller: the answer text to be saved
    pq_outcome,     \* per concurrent caller: the record returned or the error
    svc_call,       \* the running / last service or API call
    svc_outcome     \* what that call returned or raised

tpVars == <<tp_pc, ctor_args, processor, text, doc_meta, paragraphs, chunks,
            current_chunk, sentences, sent_chunks, sent_current, size_text,
            size_start, size_chunks, result>>

retVars == <<ret_args, ret_index, ret_outcome>>

chainVars == <<chain, ans_question, ans_trace, ans_outcome>>

ovVars == <<ov_units, ov_result>>

svcVars == <<rag_app, current_document_id, doc_count, storage, clock, index,
             svc_call, svc_outcome>>

conVars == <<pq_pc, pq_args, pq_answer, pq_outcome>>
vars == <<tpVars, retVars, chainVars, ovVars, svcVars, conVars>>

\* ------------------------------------------------------------------ bounds
MaxLen == 4         \* longest input text, in characters
MaxSize == 3        \* largest chunk_size / chunk_overlap argument
MaxK == 2           \* largest k / retrieval_k
MaxQ == 3           \* longest question / query, in words
MaxUnits == 3       \* longest list handed to _apply_overlap on its own
MaxUnitLen == 2     \* longest unit of such a list, in characters
MaxRecords == 2     \* most records the qa_records table holds
MaxDocs == 2        \* most documents loaded into one database
MaxAskDocs == 1     \* most documents loaded while questions are asked
MaxCallers == 2     \* most process_question calls running at once
ConfigChunkOverlap == 1 \* CHUNK_OVERLAP of the service's configuration
ConfigRetrievalK == 1 \* RETRIEVAL_K of the service's configuration

\* ------------------------------------------------------- strings (Python str)
Alphabet == {"a", ".", " ", "\n"}
Texts == UNION {[1..n -> Alphabet] : n \in 0..MaxLen}

Min(a, b) == IF a < b THEN a ELSE b
Max(a, b) == IF a > b THEN a ELSE b

\* str.isspace() for one character
IsSpace(c) == c \in {" ", "\n", "\t", "\r"}

RECURSIVE LStrip(_)
LStrip(s) == IF s = <<>> THEN s
             ELSE IF IsSpace(Head(s)) THEN LStrip(Tail(s)) ELSE s

RECURSIVE RStrip(_)
RStrip(s) == IF s = <<>> THEN s
             ELSE IF IsSpace(s[Len(s)]) THEN RStrip(SubSeq(s, 1, Len(s) - 1)) ELSE s

\* str.strip()
Strip(s) == RStrip(LStrip(s))

\* Python index normalisation of a slice bound i for a string of length n
SliceBound(i, n) == IF i < 0 THEN Max(n + i, 0) ELSE Min(i, n)

\* Python s[a:b]
PySlice(s, a, b) ==
    LET lo == SliceBound(a, Len(s))
        hi == SliceBound(b, Len(s))
    IN  IF lo >= hi THEN <<>> ELSE SubSeq(s, lo + 1, hi)

\* last index j >= i such that s[i..j] all satisfy the class test
RECURSIVE RunEnd(_, _, _)
RunEnd(s, i, nl) ==
    IF i + 1 <= Len(s) /\ (IF nl THEN s[i + 1] = "\n" ELSE IsSpace(s[i + 1]))
    THEN RunEnd(s, i + 1, nl) ELSE i

\* re.split(r"\n\n+", text): the pieces between maximal runs of >= 2 newlines
RECURSIVE SplitParagraphsFrom(_, _, _)
SplitParagraphsFrom(s, i, acc) ==
    IF i > Len(s) THEN <<acc>>
    ELSE IF s[i] = "\n" /\ i + 1 <= Len(s) /\ s[i + 1] = "\n"
         THEN <<acc>> \o SplitParagraphsFrom(s, RunEnd(s, i, TRUE) + 1, <<>>)
         ELSE SplitParagraphsFrom(s, i + 1, Append(acc, s[i]))

SplitParagraphs(s) == SplitParagraphsFrom(s, 1, <<>>)

\* re.split(r'([.!?]\s+)', text): pieces and captured separators alternate
RECURSIVE SplitSentencesFrom(_, _, _)
SplitSentencesFrom(s, i, acc) ==
    IF i > Len(s) THEN <<acc>>
    ELSE IF s[i] \in {".", "!", "?"} /\ i + 1 <= Len(s) /\ IsSpace(s[i + 1])
         THEN LET j == RunEnd(s, i, FALSE)
              IN  <<acc, SubSeq(s, i, j)>> \o SplitSentencesFrom(s, j + 1, <<>>)
         ELSE SplitSentencesFrom(s, i + 1, Append(acc, s[i]))

SplitSentences(s) == SplitSentencesFrom(s, 1, <<>>)

\* the rejoin loop without the trailing element
ReconstructPairsOnly(parts) ==
    [n \in 1..(Len(parts) \div 2) |-> parts[2 * n - 1] \o parts[2 * n]]

\* "Rejoin sentences with their punctuation": the loop over range(0, len-1, 2)
\* plus the trailing element when the length is odd
Reconstruct(parts) ==
    LET L == Len(parts)
        pairs == [n \in 1..(L \div 2) |->
                    IF 2 * n - 1 < L THEN parts[2 * n - 1] \o parts[2 * n]
                    ELSE parts[2 * n - 1]]
    IN  IF L % 2 = 1 THEN Append(pairs, parts[L]) ELSE pairs

\* ------------------------------------------------ TextProcessor (the chunker)
NoProcessor == [none |-> TRUE]
NoResult == <<[none |-> TRUE]>>
NoMeta == [none |-> TRUE]
NoOverlapCall == [none |-> TRUE]
Sizes == (0 - 1)..MaxSize
FileNames == {"policy.pdf"}

\* the constructor check with > in place of >=
ConfigRejectedStrict(chunk_size, chunk_overlap) == chunk_overlap > chunk_size

\* the check of TextProcessor.__init__
ConfigRejected(chunk_size, chunk_overlap) == chunk_overlap >= chunk_size

\* TextProcessor.__init__(chunk_size, chunk_overlap)
TextProcessorInit(chunk_size, chunk_overlap) ==
    /\ tp_pc \in {"none", "config_error"}
    /\ ctor_args' = [chunk_size |-> chunk_size, chunk_overlap |-> chunk_overlap]
    /\ IF ConfigRejected(chunk_size, chunk_overlap)
       THEN /\ tp_pc' = "config_error"
            /\ processor' = NoProcessor
       ELSE /\ tp_pc' = "ready"
            /\ processor' = [chunk_size |-> chunk_size,
                             chunk_overlap |-> chunk_overlap]
    /\ UNCHANGED <<text, doc_meta, paragraphs, chunks, current_chunk, sentences,
                   sent_chunks, sent_current, size_text, size_start,
                   size_chunks, result>>
    /\ UNCHANGED <<retVars, chainVars, ovVars, svcVars, conVars>>

\* an empty-text check that forgets strip()
EmptyTextNoStrip(t) == t = <<>>

\* "if not text or not text.strip()"
EmptyText(t) == t = <<>> \/ Strip(t) = <<>>

\* process(): the empty-text check and the paragraph split
ProcessBegin(t, meta) ==
    /\ tp_pc = "ready"
    /\ text' = t
    /\ doc_meta' = meta
    /\ result' = NoResult
    /\ IF EmptyText(t)
       THEN /\ tp_pc' = "empty_error"
            /\ paragraphs' = <<>>
       ELSE /\ tp_pc' = "paragraphs"
            /\ paragraphs' = SplitParagraphs(t)
    /\ chunks' = <<>>
    /\ current_chunk' = <<>>
    /\ UNCHANGED <<ctor_args, processor, sentences, sent_chunks, sent_current,
                   size_text, size_start, size_chunks>>
    /\ UNCHANGED <<retVars, chainVars, ovVars, svcVars, conVars>>

\* greedy packing whose size test forgets the separator
PackNoSeparator(cs, cur, piece, sep, chunk_size) ==
    IF cur # <<>> /\ Len(cur) + Len(piece) > chunk_size
    THEN [chunks |-> Append(cs, cur), current |-> piece]
    ELSE [chunks |-> cs,
          current |-> IF cur # <<>> THEN cur \o sep \o piece ELSE piece]

\* greedy packing shared by the paragraph loop (sep "\n\n") and the sentence
\* loop (sep " "): the (chunks, current_chunk) pair after one small piece
Pack(cs, cur, piece, sep, chunk_size) ==
    IF cur # <<>> /\ Len(cur) + Len(piece) + Len(sep) > chunk_size
    THEN [chunks |-> Append(cs, cur), current |-> piece]
    ELSE [chunks |-> cs,
          current |-> IF cur # <<>> THEN cur \o sep \o piece ELSE piece]

\* appending the working buffer without testing that it holds something
FlushAlways(cs, cur) == Append(cs, cur)

\* "if current_chunk: chunks.append(current_chunk)"
Flush(cs, cur) == IF cur # <<>> THEN Append(cs, cur) ELSE cs

\* a routing test that also sends a piece of exactly chunk_size down
TooLargeInclusive(piece, chunk_size) == Len(piece) >= chunk_size

\* the test that routes a paragraph / a sentence to the next splitting level
TooLarge(piece, chunk_size) == Len(piece) > chunk_size

\* one iteration of "for paragraph in paragraphs"
ParagraphIter ==
    /\ tp_pc = "paragraphs"
    /\ paragraphs # <<>>
    /\ LET paragraph == Strip(Head(paragraphs))
       IN  /\ paragraphs' = Tail(paragraphs)
           /\ IF paragraph = <<>>
              THEN UNCHANGED <<tp_pc, chunks, current_chunk, sentences>>
              ELSE IF TooLarge(paragraph, processor.chunk_size)
              THEN /\ chunks' = Flush(chunks, current_chunk)
                   /\ current_chunk' = <<>>
                   /\ sentences' = Reconstruct(SplitSentences(paragraph))
                   /\ tp_pc' = "sentences"
              ELSE LET p == Pack(chunks, current_chunk, paragraph,
                                 <<"\n", "\n">>, processor.chunk_size)
                   IN  /\ chunks' = p.chunks
                       /\ current_chunk' = p.current
                       /\ UNCHANGED <<tp_pc, sentences>>
    /\ UNCHANGED <<ctor_args, processor, text, doc_meta, sent_chunks,
                   sent_current, size_text, size_start, size_chunks, result>>
    /\ UNCHANGED <<retVars, chainVars, ovVars, svcVars, conVars>>

\* one iteration of "for sentence in reconstructed"
SentenceIter ==
    /\ tp_pc = "sentences"
    /\ sentences # <<>>
    /\ LET sentence == Strip(Head(sentences))
       IN  /\ sentences' = Tail(sentences)
           /\ IF sentence = <<>>
              THEN UNCHANGED <<tp_pc, sent_chunks, sent_current, size_text>>
              ELSE IF TooLarge(sentence, processor.chunk_size)
              THEN /\ sent_chunks' = Flush(sent_chunks, sent_current)
                   /\ sent_current' = <<>>
                   /\ size_text' = sentence
                   /\ tp_pc' = "by_size"
              ELSE LET p == Pack(sent_chunks, sent_current, sentence,
                                 <<" ">>, processor.chunk_size)
                   IN  /\ sent_chunks' = p.chunks
                       /\ sent_current' = p.current
                       /\ UNCHANGED <<tp_pc, size_text>>
    /\ UNCHANGED <<ctor_args, processor, text, doc_meta, paragraphs, chunks,
                   current_chunk, size_start, size_chunks, result>>
    /\ UNCHANGED <<retVars, chainVars, ovVars, svcVars, conVars>>

\* an end position that forgets to add chunk_size
SizeEndNoAdvance(start, chunk_size, n) == Min(start, n)

\* "end = min(start + self.chunk_size, len(text))"
SizeEnd(start, chunk_size, n) == Min(start + chunk_size, n)

\* the while loop never runs longer than this for a positive chunk_size; the
\* cap only cuts the endless loop of a processor with chunk_size <= 0
SizeLoopCap(t) == Len(t) + 1

\* one iteration of "while start < len(text)"
SizeIter ==
    /\ tp_pc = "by_size"
    /\ size_start < Len(size_text)
    /\ Len(size_chunks) < SizeLoopCap(size_text)
    /\ LET end == SizeEnd(size_start, processor.chunk_size, Len(size_text))
       IN  /\ size_chunks' = Append(size_chunks, PySlice(size_text, size_start, end))
           /\ size_start' = end
    /\ UNCHANGED <<tp_pc, ctor_args, processor, text, doc_meta, paragraphs,
                   chunks, current_chunk, sentences, sent_chunks, sent_current,
                   size_text, result>>
    /\ UNCHANGED <<retVars, chainVars, ovVars, svcVars, conVars>>

\* _split_by_size returns: "chunks.extend(self._split_by_size(sentence))"
SizeReturn ==
    /\ tp_pc = "by_size"
    /\ ~(size_start < Len(size_text))
    /\ sent_chunks' = sent_chunks \o size_chunks
    /\ size_text' = <<>>
    /\ size_start' = 0
    /\ size_chunks' = <<>>
    /\ tp_pc' = "sentences"
    /\ UNCHANGED <<ctor_args, processor, text, doc_meta, paragraphs, chunks,
                   current_chunk, sentences, sent_current, result>>
    /\ UNCHANGED <<retVars, chainVars, ovVars, svcVars, conVars>>

\* _split_large_paragraph returns:
\* "chunks.extend(self._split_large_paragraph(paragraph))"
SentenceReturn ==
    /\ tp_pc = "sentences"
    /\ sentences = <<>>
    /\ chunks' = chunks \o Flush(sent_chunks, sent_current)
    /\ sent_chunks' = <<>>
    /\ sent_current' = <<>>
    /\ tp_pc' = "paragraphs"
    /\ UNCHANGED <<ctor_args, processor, text, doc_meta, paragraphs,
                   current_chunk, sentences, size_text, size_start,
                   size_chunks, result>>
    /\ UNCHANGED <<retVars, chainVars, ovVars, svcVars, conVars>>

\* overlap taken from the already overlapped previous unit
RECURSIVE CascadeFrom(_, _, _, _)
CascadeFrom(cs, chunk_overlap, i, acc) ==
    IF i > Len(cs) THEN acc
    ELSE LET prev_chunk == acc[i - 1]
             overlap_text ==
                IF Len(prev_chunk) > chunk_overlap
                THEN PySlice(prev_chunk, 0 - chunk_overlap, Len(prev_chunk))
                ELSE prev_chunk
         IN  CascadeFrom(cs, chunk_overlap, i + 1,
                         Append(acc, overlap_text \o <<" ">> \o cs[i]))

ApplyOverlapCascading(cs, chunk_overlap) ==
    IF Len(cs) <= 1 \/ chunk_overlap = 0 THEN cs
    ELSE CascadeFrom(cs, chunk_overlap, 2, <<cs[1]>>)

\* overlap joined to the unit by a two-character separator
ApplyOverlapWide(cs, chunk_overlap) ==
    IF Len(cs) <= 1 \/ chunk_overlap = 0 THEN cs
    ELSE [i \in 1..Len(cs) |->
            IF i = 1 THEN cs[1]
            ELSE LET prev_chunk == cs[i - 1]
                     overlap_text ==
                        IF Len(prev_chunk) > chunk_overlap
                        THEN PySlice(prev_chunk, 0 - chunk_overlap, Len(prev_chunk))
                        ELSE prev_chunk
                 IN  overlap_text \o <<" ", " ">> \o cs[i]]

\* _apply_overlap(chunks)
ApplyOverlap(cs, chunk_overlap) ==
    IF Len(cs) <= 1 \/ chunk_overlap = 0 THEN cs
    ELSE [i \in 1..Len(cs) |->
            IF i = 1 THEN cs[1]
            ELSE LET prev_chunk == cs[i - 1]
                     overlap_text ==
                        IF Len(prev_chunk) > chunk_overlap
                        THEN PySlice(prev_chunk, 0 - chunk_overlap, Len(prev_chunk))
                        ELSE prev_chunk
                 IN  overlap_text \o <<" ">> \o cs[i]]

\* Chunk objects numbered from 1
MakeChunksFromOne(cs, meta) ==
    [i \in 1..Len(cs) |->
        [content |-> cs[i],
         index |-> i,
         metadata |-> [chunk_index |-> i,
                       chunk_size |-> Len(cs[i]),
                       source_document |->
                          IF meta # NoMeta THEN meta.file_name ELSE "None"]]]

\* "for idx, chunk_text in enumerate(chunks)": the Chunk objects.  The section
\* pattern needs a Hebrew word and a digit, which Alphabet does not hold, so
\* no "section" key is ever set here.
MakeChunks(cs, meta) ==
    [i \in 1..Len(cs) |->
        [content |-> cs[i],
         index |-> i - 1,
         metadata |-> [chunk_index |-> i - 1,
                       chunk_size |-> Len(cs[i]),
                       source_document |->
                          IF meta # NoMeta THEN meta.file_name ELSE "None"]]]

\* the end of process(): remaining chunk, overlap, Chunk objects, return
ProcessFinish ==
    /\ tp_pc = "paragraphs"
    /\ paragraphs = <<>>
    /\ chunks' = Flush(chunks, current_chunk)
    /\ current_chunk' = <<>>
    /\ result' = MakeChunks(ApplyOverlap(chunks', processor.chunk_overlap), doc_meta)
    /\ tp_pc' = "done"
    /\ UNCHANGED <<ctor_args, processor, text, doc_meta, paragraphs, sentences,
                   sent_chunks, sent_current, size_text, size_start,
                   size_chunks>>
    /\ UNCHANGED <<retVars, chainVars, ovVars, svcVars, conVars>>

\* the caller has taken the outcome of process() (the chunk list or the
\* ValueError) and may call process() again on the same object
ProcessReturn ==
    /\ tp_pc \in {"done", "empty_error"}
    /\ tp_pc' = "ready"
    /\ text' = <<>>
    /\ doc_meta' = NoMeta
    /\ chunks' = <<>>
    /\ result' = NoResult
    /\ UNCHANGED <<ctor_args, processor, paragraphs, current_chunk, sentences,
                   sent_chunks, sent_current, size_text, size_start,
                   size_chunks>>
    /\ UNCHANGED <<retVars, chainVars, ovVars, svcVars, conVars>>

\* lists of units as the splitting stages hand them to _apply_overlap:
\* non-empty strings no longer than chunk_size
UnitLists(chunk_size) ==
    LET Units == UNION {[1..n -> {"a", "."}] :
                            n \in 1..Min(chunk_size, MaxUnitLen)}
    IN  UNION {[1..n -> Units] : n \in 0..MaxUnits}

\* a call of _apply_overlap(chunks) on the constructed processor
ApplyOverlapCall(units) ==
    /\ tp_pc = "ready"
    /\ ov_result = NoOverlapCall
    /\ ov_units' = units
    /\ ov_result' = [value |-> ApplyOverlap(units, processor.chunk_overlap)]
    /\ UNCHANGED <<tpVars, retVars, chainVars, svcVars, conVars>>

\* the caller takes the list; the next call may start
ApplyOverlapReturn ==
    /\ ov_result # NoOverlapCall
    /\ ov_units' = <<>>
    /\ ov_result' = NoOverlapCall
    /\ UNCHANGED <<tpVars, retVars, chainVars, svcVars, conVars>>

InitOverlap ==
    /\ ov_units = <<>>
    /\ ov_result = NoOverlapCall

InitTP ==
    /\ tp_pc = "none"
    /\ ctor_args = NoProcessor
    /\ processor = NoProcessor
    /\ text = <<>>
    /\ doc_meta = NoMeta
    /\ paragraphs = <<>>
    /\ chunks = <<>>
    /\ current_chunk = <<>>
    /\ sentences = <<>>
    /\ sent_chunks = <<>>
    /\ sent_current = <<>>
    /\ size_text = <<>>
    /\ size_start = 0
    /\ size_chunks = <<>>
    /\ result = NoResult

\* the steps the running process() call takes by itself
ProcessStep ==
    \/ ParagraphIter
    \/ SentenceIter
    \/ SizeIter
    \/ SizeReturn
    \/ SentenceReturn
    \/ ProcessFinish

\* --------------------------------------------------- questions and queries
\* A question is a sequence of words; a word is one lexeme of the catalogues
\* in rag_chain.py or a blank.  Hebrew lexemes are written transliterated.
Vocabulary == {" ", "System:", "hello", "cost", "mimatai"}
Questions == UNION {[1..n -> Vocabulary] : n \in 0..MaxQ}

\* str.lower() of one word
LowerWord(w) ==
    CASE w = "System:" -> "system:"
      [] OTHER -> w

\* question.lower()
Lower(q) == [i \in 1..Len(q) |-> LowerWord(q[i])]

\* len() of one word, in characters
WordLen(w) ==
    CASE w = " " -> 1
      [] w \in {"System:", "system:"} -> 7
      [] w = "hello" -> 5
      [] w = "cost" -> 4
      [] w = "mimatai" -> 4
      [] OTHER -> 1

\* len(question), in characters
RECURSIVE CharLen(_)
CharLen(q) == IF q = <<>> THEN 0 ELSE WordLen(Head(q)) + CharLen(Tail(q))

\* Python "pattern in s" for strings
Contains(q, pattern) ==
    \E i \in 1..(Len(q) - Len(pattern) + 1) :
        SubSeq(q, i, i + Len(pattern) - 1) = pattern

\* --------------------------------------------- VectorStoreRetriever.retrieve
\* Scores and distances are in tenths: ScoreOne stands for 1.0
ScoreOne == 10
NoCall == [none |-> TRUE]
NoThreshold == [given |-> FALSE, value |-> 0]
SomeThreshold(v) == [given |-> TRUE, value |-> v]
Thresholds == {NoThreshold, SomeThreshold(7)}
Distances == {0, 3, 4}
Documents == {[content |-> "c1", section |-> ""],
              [content |-> "c2", section |-> "sec1"]}
Candidate == [doc : Documents, distance : Distances]

\* what collection.query(n_results=k) can return: at most k candidates,
\* nearest first
IndexResults(k) ==
    {c \in UNION {[1..n -> Candidate] : n \in 0..k} :
        \A i \in 1..(Len(c) - 1) : c[i].distance <= c[i + 1].distance}

\* "similarity_score = 1.0 - distance"
Similarity(distance) == ScoreOne - distance

\* the threshold comparison turned around
FilteredOutInverted(similarity_score, similarity_threshold) ==
    similarity_threshold.given /\ similarity_score > similarity_threshold.value

\* the threshold comparison made inclusive: a score equal to the threshold
\* is dropped
FilteredOutInclusive(similarity_score, similarity_threshold) ==
    similarity_threshold.given /\ similarity_score <= similarity_threshold.value

\* "similarity_threshold is not None and similarity_score < similarity_threshold"
FilteredOut(similarity_score, similarity_threshold) ==
    similarity_threshold.given /\ similarity_score < similarity_threshold.value

\* RetrievedChunk(content=doc, metadata=metadata, similarity_score=...)
RetrievedChunk(c) ==
    [content |-> c.doc.content,
     metadata |-> [section |-> c.doc.section],
     similarity_score |-> Similarity(c.distance)]

\* the for loop over zip(documents, metadatas, distances)
RECURSIVE ProcessResults(_, _)
ProcessResults(cands, similarity_threshold) ==
    IF cands = <<>> THEN <<>>
    ELSE IF FilteredOut(Similarity(Head(cands).distance), similarity_threshold)
         THEN ProcessResults(Tail(cands), similarity_threshold)
         ELSE <<RetrievedChunk(Head(cands))>>
                \o ProcessResults(Tail(cands), similarity_threshold)

\* a blank test that forgets strip()
IsBlankNoStrip(s) == s = <<>>

\* "if not query or not query.strip()"
IsBlank(s) == s = <<>> \/ Strip(s) = <<>>

\* retrieve(query, k, similarity_threshold) when the index answers `cands`
RetrieveOutcome(query, similarity_threshold, cands) ==
    IF IsBlank(query)
    THEN [kind |-> "raised", error |-> "ValueError: Query cannot be empty"]
    ELSE [kind |-> "returned",
          chunks |-> ProcessResults(cands, similarity_threshold)]

\* one call of VectorStoreRetriever.retrieve
Retrieve(query, k, similarity_threshold, cands) ==
    /\ ret_outcome = NoCall
    /\ ret_args' = [query |-> query, k |-> k,
                    similarity_threshold |-> similarity_threshold]
    /\ ret_index' = IF IsBlank(query) THEN <<>> ELSE cands
    /\ ret_outcome' = RetrieveOutcome(query, similarity_threshold, cands)
    /\ UNCHANGED <<tpVars, chainVars, ovVars, svcVars, conVars>>

\* the caller has taken the outcome of retrieve() and may call again
RetrieveReturn ==
    /\ ret_outcome # NoCall
    /\ ret_args' = NoCall
    /\ ret_index' = <<>>
    /\ ret_outcome' = NoCall
    /\ UNCHANGED <<tpVars, chainVars, ovVars, svcVars, conVars>>

InitRetriever ==
    /\ ret_args = NoCall
    /\ ret_index = <<>>
    /\ ret_outcome = NoCall

NextRetriever ==
    \/ /\ ret_outcome = NoCall
       /\ \E query \in Questions, k \in 1..MaxK, t \in Thresholds :
            \E cands \in IndexResults(k) : Retrieve(query, k, t, cands)
    \/ RetrieveReturn

\* ------------------------------------------------------------------ RAGChain
NoChain == [none |-> TRUE]

\* the fixed texts of rag_chain.py, each one word of the model
NoInfoAnswer == <<"NO-RELEVANT-INFORMATION-FOUND">>
SafeMessage == <<"SUSPICIOUS-PATTERNS-SAFE-MESSAGE">>
OffTopicNote == <<"[OFF-TOPIC-NOTE]", "\n", "\n">>
TemporalHint == <<"\n", "TEMPORAL-HINT">>
SystemPrompt == <<"SYSTEM-PROMPT">>

\* injection_patterns, as word sequences (Hebrew entries transliterated)
InjectionPatterns ==
    {<<"ignore", " ", "previous">>, <<"ignore", " ", "all", " ", "previous">>,
     <<"disregard">>, <<"forget">>, <<"new", " ", "instructions">>,
     <<"you", " ", "are", " ", "now">>, <<"act", " ", "as">>,
     <<"system", " ", "prompt">>, <<"hitalem">>, <<"shchach">>,
     <<"horaot", " ", "chadashot">>, <<"system:">>, <<"assistant:">>,
     <<"user:">>, <<"<|im_start|>">>, <<"<|im_end|>">>}

\* insurance_keywords (Hebrew entries transliterated)
InsuranceKeywords ==
    {<<"bituach">>, <<"tipul">>, <<"akupunktura">>, <<"refua">>,
     <<"mashlima">>, <<"hechzer">>, <<"kisui">>, <<"tagmul">>, <<"alut">>,
     <<"mechir">>, <<"taarif">>, <<"polisa">>, <<"mevutach">>,
     <<"hishtatfut">>, <<"atzmit">>, <<"achshara">>, <<"insurance">>,
     <<"treatment">>, <<"acupuncture">>, <<"medical">>, <<"coverage">>,
     <<"reimbursement">>, <<"cost">>, <<"price">>, <<"policy">>}

\* the temporal trigger phrases (Hebrew, transliterated)
TemporalTriggers ==
    {<<"mimatai">>, <<"matai", " ", "nitan">>, <<"acharei", " ", "kama">>}

\* "any(pattern in question_lower for pattern in ...)"
ContainsAny(q, patterns) == \E pattern \in patterns : Contains(Lower(q), pattern)

IsInjection(q) == ContainsAny(q, InjectionPatterns)

\* an off-topic test that needs both conditions
IsOffTopicBoth(q) ==
    CharLen(Strip(q)) < 5 /\ ~ContainsAny(q, InsuranceKeywords)

\* "len(question.strip()) < 5 or not any(keyword in question_lower ...)"
IsOffTopic(q) == CharLen(Strip(q)) < 5 \/ ~ContainsAny(q, InsuranceKeywords)

IsTemporal(q) == ContainsAny(q, TemporalTriggers)

\* _build_context(chunks): one numbered part per chunk, joined by "\n"
RECURSIVE ContextParts(_, _)
ContextParts(cs, i) ==
    IF i > Len(cs) THEN <<>>
    ELSE LET section == cs[i].metadata.section
             section_info == IF section # "" THEN <<" (", section, ")">> ELSE <<>>
             part == <<"PART ", ToString(i)>> \o section_info
                        \o <<":", "\n", cs[i].content, "\n">>
         IN  (IF i > 1 THEN <<"\n">> ELSE <<>>) \o part \o ContextParts(cs, i + 1)

BuildContext(cs) == ContextParts(cs, 1)

\* _build_prompt without the injection check
BuildPromptNoGuard(q, context) ==
    LET ctx == IF IsOffTopic(q) THEN OffTopicNote \o context ELSE context
        question_type_hint == IF IsTemporal(q) THEN TemporalHint ELSE <<>>
    IN  <<"PROMPT-HEADER", "\n", "\n">> \o ctx
           \o <<"\n", "\n", "===", "\n", "\n", "CUSTOMER-QUESTION: ">>
           \o q \o question_type_hint
           \o <<"\n", "\n", "INSTRUCTIONS", "ANSWER:">>

\* _build_prompt(question, context)
BuildPrompt(q, context) ==
    IF IsInjection(q) THEN SafeMessage
    ELSE LET ctx == IF IsOffTopic(q) THEN OffTopicNote \o context ELSE context
             question_type_hint == IF IsTemporal(q) THEN TemporalHint ELSE <<>>
         IN  <<"PROMPT-HEADER", "\n", "\n">> \o ctx
                \o <<"\n", "\n", "===", "\n", "\n", "CUSTOMER-QUESTION: ">>
                \o q \o question_type_hint
                \o <<"\n", "\n", "INSTRUCTIONS", "ANSWER:">>

\* what llm.generate can do: return some text or raise the provider's error
LLMTexts == {<<"generated", " ", "answer">>, <<"other", " ", "answer">>}
LLMOutcomes == [kind : {"returned"}, text : LLMTexts]
                 \cup {[kind |-> "raised", error |-> "GenerationFailure"]}

\* what retriever.retrieve can do inside answer(): run retrieve() against what
\* the index holds, or fail in the embedding / index service
RetrieverOutcomes(q, k, t) ==
    {RetrieveOutcome(q, t, cands) : cands \in IndexResults(k)}
        \cup {[kind |-> "raised", error |-> "RetrievalFailure"]}

\* a sum that stops after the first score
ScoreOfHead(cs) == IF cs = <<>> THEN 0 ELSE Head(cs).similarity_score

\* "sum(c.similarity_score for c in retrieved_chunks)"
RECURSIVE SumScores(_)
SumScores(cs) ==
    IF cs = <<>> THEN 0 ELSE Head(cs).similarity_score + SumScores(Tail(cs))

\* the collaborator calls of one answer(question) run, in order
RetrieveEvent(q, retrieval) ==
    [op |-> "retriever.retrieve", query |-> q, k |-> chain.retrieval_k,
     similarity_threshold |-> chain.similarity_threshold,
     result |-> retrieval]
GenerateEvent(prompt, llm) ==
    [op |-> "llm.generate", prompt |-> prompt, system_prompt |-> SystemPrompt,
     result |-> llm]

\* steps 2 to 4 with a generation failure turned into an answer text
AnswerFromChunksSwallow(q, retrieved_chunks, llm) ==
    LET context == BuildContext(retrieved_chunks)
        prompt == BuildPrompt(q, context)
        called == <<RetrieveEvent(q, [kind |-> "returned",
                                      chunks |-> retrieved_chunks]),
                    [op |-> "_build_context"], [op |-> "_build_prompt"],
                    GenerateEvent(prompt, llm)>>
    IN  [trace |-> called,
         outcome |->
            [kind |-> "returned",
             question |-> q,
             answer |-> IF llm.kind = "raised" THEN <<llm.error>> ELSE llm.text,
             retrieved_chunks |-> retrieved_chunks,
             metadata |->
                [chunks_retrieved |-> Len(retrieved_chunks),
                 answer_generated |-> TRUE,
                 avg_similarity |->
                    [sum |-> SumScores(retrieved_chunks),
                     count |-> Len(retrieved_chunks)]]]]

\* answer(question) after a non-empty retrieval: steps 2 to 4
AnswerFromChunks(q, retrieved_chunks, llm) ==
    LET context == BuildContext(retrieved_chunks)
        prompt == BuildPrompt(q, context)
        called == <<RetrieveEvent(q, [kind |-> "returned",
                                      chunks |-> retrieved_chunks]),
                    [op |-> "_build_context"], [op |-> "_build_prompt"],
                    GenerateEvent(prompt, llm)>>
    IN  IF llm.kind = "raised"
        THEN [trace |-> called, outcome |-> llm]
        ELSE [trace |-> called,
              outcome |->
                [kind |-> "returned",
                 question |-> q,
                 answer |-> llm.text,
                 retrieved_chunks |-> retrieved_chunks,
                 metadata |->
                    [chunks_retrieved |-> Len(retrieved_chunks),
                     answer_generated |-> TRUE,
                     avg_similarity |->
                        [sum |-> SumScores(retrieved_chunks),
                         count |-> Len(retrieved_chunks)]]]]

\* the no-result fallback of answer()
NoChunksResponse(q) ==
    [kind |-> "returned",
     question |-> q,
     answer |-> NoInfoAnswer,
     retrieved_chunks |-> <<>>,
     metadata |-> [chunks_retrieved |-> 0, answer_generated |-> FALSE]]

\* answer() that asks the generation service again after a failure
AnswerRunRetry(q, retrieval, llm) ==
    IF IsBlank(q)
    THEN [trace |-> <<>>,
          outcome |-> [kind |-> "raised",
                       error |-> "ValueError: Question cannot be empty"]]
    ELSE IF retrieval.kind = "raised"
    THEN [trace |-> <<RetrieveEvent(q, retrieval)>>, outcome |-> retrieval]
    ELSE IF retrieval.chunks = <<>>
    THEN [trace |-> <<RetrieveEvent(q, retrieval)>>,
          outcome |-> NoChunksResponse(q)]
    ELSE LET run == AnswerFromChunks(q, retrieval.chunks, llm)
         IN  IF llm.kind = "raised"
             THEN [trace |-> Append(run.trace, run.trace[Len(run.trace)]),
                   outcome |-> run.outcome]
             ELSE run

\* answer() without the no-result fallback
AnswerRunNoFallback(q, retrieval, llm) ==
    IF IsBlank(q)
    THEN [trace |-> <<>>,
          outcome |-> [kind |-> "raised",
                       error |-> "ValueError: Question cannot be empty"]]
    ELSE IF retrieval.kind = "raised"
    THEN [trace |-> <<RetrieveEvent(q, retrieval)>>, outcome |-> retrieval]
    ELSE AnswerFromChunks(q, retrieval.chunks, llm)

\* answer(question): the trace of calls and the outcome, given what the
\* retriever and the generation service do when called
AnswerRun(q, retrieval, llm) ==
    IF IsBlank(q)
    THEN [trace |-> <<>>,
          outcome |-> [kind |-> "raised",
                       error |-> "ValueError: Question cannot be empty"]]
    ELSE IF retrieval.kind = "raised"
    THEN [trace |-> <<RetrieveEvent(q, retrieval)>>, outcome |-> retrieval]
    ELSE IF retrieval.chunks = <<>>
    THEN [trace |-> <<RetrieveEvent(q, retrieval)>>,
          outcome |-> NoChunksResponse(q)]
    ELSE AnswerFromChunks(q, retrieval.chunks, llm)

\* RAGChain.__init__(retriever, llm, retrieval_k, similarity_threshold)
RAGChainInit(retrieval_k, similarity_threshold) ==
    /\ chain = NoChain
    /\ chain' = [retrieval_k |-> retrieval_k,
                 similarity_threshold |-> similarity_threshold]
    /\ UNCHANGED <<ans_question, ans_trace, ans_outcome, tpVars, retVars, ovVars, svcVars, conVars>>

\* one call of RAGChain.answer
Answer(q, retrieval, llm) ==
    /\ chain # NoChain
    /\ ans_outcome = NoCall
    /\ LET run == AnswerRun(q, retrieval, llm)
       IN  /\ ans_question' = q
           /\ ans_trace' = run.trace
           /\ ans_outcome' = run.outcome
    /\ UNCHANGED <<chain, tpVars, retVars, ovVars, svcVars, conVars>>

\* the caller has taken the outcome of answer() and may call again
AnswerReturn ==
    /\ ans_outcome # NoCall
    /\ ans_question' = <<>>
    /\ ans_trace' = <<>>
    /\ ans_outcome' = NoCall
    /\ UNCHANGED <<chain, tpVars, retVars, ovVars, svcVars, conVars>>

InitChain ==
    /\ chain = NoChain
    /\ ans_question = <<>>
    /\ ans_trace = <<>>
    /\ ans_outcome = NoCall

NextChain ==
    \/ /\ chain = NoChain
       /\ \E k \in 1..MaxK, t \in Thresholds : RAGChainInit(k, t)
    \/ /\ chain # NoChain
       /\ ans_outcome = NoCall
       /\ \E q \in Questions :
            \E retrieval \in RetrieverOutcomes(q, chain.retrieval_k,
                                               chain.similarity_threshold),
               llm \in LLMOutcomes : Answer(q, retrieval, llm)
    \/ AnswerReturn

\* ------------------------------------------------------------ specifications
\* ------------------------------------------- RAGService (part_b/service.py)
NoApp == [none |-> TRUE]
TheApp == [created |-> TRUE]
NoDocument == <<"none", 0>>
NoId == <<"none", 0>>

\* the placeholder values initialize_rag returns
PlaceholderPages == 11
PlaceholderChunks == 45

\* SIMILARITY_THRESHOLD of the configuration, in tenths
ConfigSimilarityThreshold == 7

\* identifiers: str(uuid.uuid4()) never repeats, so a generated id is
\* numbered by the clock tick of the record it is generated for
CustomIds == {<<"custom", 1>>}
NewUuid == <<"uuid", clock>>
NewDocumentId == <<"doc", doc_count + 1>>

\* the questions sent to the service
SvcQuestions == {<<"hello">>, <<"cost">>}

\* an is_initialized() that is always true
IsInitializedAlways == TRUE

\* is_initialized()
IsInitialized == rag_app # NoApp

\* an exists() that never finds a record
ExistsNever(st, query_id) == FALSE

\* QAStorage.exists(query_id)
Exists(st, query_id) == query_id \in DOMAIN st

\* a save that replaces the row stored under the id
SaveQaOverwrite(st, query_id, question, answer, status) ==
    LET record == [id |-> query_id, question |-> question,
                   answer |-> answer, status |-> status,
                   timestamp |-> clock]
    IN  [kind |-> "returned", record |-> record,
         storage |-> [i \in DOMAIN st \cup {query_id} |->
                         IF i = query_id THEN record ELSE st[i]]]

\* QAStorage.save_qa: id is the primary key of qa_records, so the commit of
\* a second row under one id raises and the session is rolled back
SaveQa(st, query_id, question, answer, status) ==
    IF query_id \in DOMAIN st
    THEN [kind |-> "raised", error |-> "IntegrityError", storage |-> st]
    ELSE LET record == [id |-> query_id, question |-> question,
                        answer |-> answer, status |-> status,
                        timestamp |-> clock]
         IN  [kind |-> "returned", record |-> record,
              storage |-> [i \in DOMAIN st \cup {query_id} |->
                              IF i = query_id THEN record ELSE st[i]]]

\* RAGApplication.answer_question(question): the chain run, if any, and the
\* string returned or the error raised
AnswerQuestion(q, retrieval, llm) ==
    IF chain = NoChain
    THEN [invoked |-> FALSE,
          kind |-> "raised",
          error |-> "RuntimeError: System not initialized"]
    ELSE LET run == AnswerRun(q, retrieval, llm)
         IN  [invoked |-> TRUE,
              run |-> run,
              kind |-> "returned",
              text |-> IF run.outcome.kind = "raised"
                       THEN <<"ERROR-PROCESSING-QUESTION: ", run.outcome.error>>
                       ELSE run.outcome.answer]

\* the except branch of process_question: "Try to save error state"
SaveErrorState(query_id, q, error) ==
    LET saved == SaveQa(storage, query_id, q, <<"Error: ", error>>, "error")
    IN  IF saved.kind = "returned"
        THEN [outcome |-> [kind |-> "returned", record |-> saved.record],
              storage |-> saved.storage]
        ELSE [outcome |-> [kind |-> "raised",
                           error |-> "RuntimeError: Failed to process question"],
              storage |-> storage]

\* process_question(question, query_id): outcome, table afterwards and the
\* answer_question call made, given what the collaborators do when called
ProcessQuestionRun(q, query_id, retrieval, llm) ==
    IF ~IsInitialized
    THEN [outcome |-> [kind |-> "raised",
                       error |-> "RuntimeError: RAG system not initialized"],
          storage |-> storage, asked |-> FALSE]
    ELSE IF query_id # NoId /\ Exists(storage, query_id)
    THEN [outcome |-> [kind |-> "raised",
                       error |-> "ValueError: Query ID already exists"],
          storage |-> storage, asked |-> FALSE]
    ELSE LET id == IF query_id = NoId THEN NewUuid ELSE query_id
             got == AnswerQuestion(q, retrieval, llm)
         IN  IF got.kind = "raised"
             THEN SaveErrorState(id, q, got.error)
                     @@ [asked |-> TRUE, got |-> got]
             ELSE LET saved == SaveQa(storage, id, q, got.text, "completed")
                  IN  IF saved.kind = "returned"
                      THEN [outcome |-> [kind |-> "returned",
                                         record |-> saved.record],
                            storage |-> saved.storage,
                            asked |-> TRUE, got |-> got]
                      ELSE SaveErrorState(id, q, saved.error)
                              @@ [asked |-> TRUE, got |-> got]

\* the effect of one process_question run on the service and the chain
ApplyRun(run) ==
    /\ storage' = run.storage
    /\ clock' = IF run.storage = storage THEN clock ELSE clock + 1
    /\ IF run.asked /\ run.got.invoked
       THEN /\ ans_question' = svc_call'.question
            /\ ans_trace' = run.got.run.trace
            /\ ans_outcome' = run.got.run.outcome
       ELSE UNCHANGED <<ans_question, ans_trace, ans_outcome>>
    /\ UNCHANGED <<chain, rag_app, current_document_id, doc_count, index>>
    /\ UNCHANGED <<tpVars, retVars, ovVars, conVars>>

\* a direct call of RAGService.process_question
ProcessQuestion(q, query_id, retrieval, llm) ==
    /\ svc_outcome = NoCall
    /\ LET run == ProcessQuestionRun(q, query_id, retrieval, llm)
       IN  /\ svc_call' = [op |-> "process_question", question |-> q,
                           query_id |-> query_id]
           /\ svc_outcome' = run.outcome
           /\ ApplyRun(run)

\* POST /api/ask: the ask_question handler of part_b/main.py
AskQuestion(q, query_id, retrieval, llm) ==
    /\ svc_outcome = NoCall
    /\ svc_call' = [op |-> "ask_question", question |-> q,
                    query_id |-> query_id]
    /\ IF ~IsInitialized
       THEN /\ svc_outcome' = [kind |-> "http", status |-> 400,
                               message |-> "RAG system not initialized"]
            /\ UNCHANGED <<storage, clock, chainVars, rag_app,
                           current_document_id, doc_count, index>>
            /\ UNCHANGED <<tpVars, retVars, ovVars, conVars>>
       ELSE LET run == ProcessQuestionRun(q, query_id, retrieval, llm)
            IN  /\ svc_outcome' =
                     IF run.outcome.kind = "returned"
                     THEN [kind |-> "http", status |-> 200,
                           record |-> run.outcome.record]
                     ELSE IF run.outcome.error
                               = "ValueError: Query ID already exists"
                     THEN [kind |-> "http", status |-> 400,
                           message |-> "Invalid query ID"]
                     ELSE [kind |-> "http", status |-> 500,
                           message |-> "Failed to process question"]
                /\ ApplyRun(run)

\* the documents handed to the service: the file name, the page count the
\* loader reports and the units the splitting stages make of the text; the
\* last one has no extractable text
DocA == [name |-> <<"a", ".", "p", "d", "f">>, pages |-> 1,
         units |-> << <<"a">> >>]
DocB == [name |-> <<"b", ".", "p", "d", "f">>, pages |-> 2,
         units |-> << <<"a", ".">>, <<".">> >>]
DocBlank == [name |-> <<"c", ".", "p", "d", "f">>, pages |-> 1, units |-> <<>>]
UploadDocs == {DocA, DocB, DocBlank}

\* where initialize_system can fail besides the document itself: creating
\* the embedding model, embedding the chunks in add_chunks, creating the
\* LLM interface
InitFailures == {"none", "embedding_model", "embed_texts", "llm"}

\* "ids = [f"chunk_{chunk.index}" for chunk in chunks]"
ChunkId(i) == <<"chunk", i>>

\* add_chunks(chunks) on the collection idx; collection.add leaves an entry
\* whose id is already present as it is
AddChunks(idx, cs) ==
    LET ids == {ChunkId(cs[i].index) : i \in 1..Len(cs)}
        ContentOf(id) == cs[CHOOSE i \in 1..Len(cs) : ChunkId(cs[i].index) = id]
    IN  [id \in DOMAIN idx \cup ids |->
            IF id \in DOMAIN idx THEN idx[id] ELSE ContentOf(id).content]

\* indexing the chunks without clearing the collection first
IndexAfterLoadNoClear(idx, cs) == AddChunks(idx, cs)

\* "if retriever.count_documents() > 0: retriever.clear()" and then
\* "retriever.add_chunks(chunks)"
IndexAfterLoad(idx, cs) ==
    LET cleared == IF Cardinality(DOMAIN idx) > 0 THEN <<>> ELSE idx
    IN  AddChunks(cleared, cs)

\* RAGApplication.initialize_system(document_path): what it returns or
\* raises, the collection afterwards and whether rag_chain is set
InitializeSystem(doc, failure) ==
    IF doc.units = <<>>
    THEN [kind |-> "raised", error |-> "ValueError: Failed to process PDF",
          index |-> index, chain_set |-> FALSE]
    ELSE LET chunks_made ==
                MakeChunks(ApplyOverlap(doc.units, ConfigChunkOverlap),
                           [file_name |-> doc.name])
         IN  IF failure = "embedding_model"
             THEN [kind |-> "raised", error |-> "EmbeddingModelFailure",
                   index |-> index, chain_set |-> FALSE]
             ELSE IF failure = "embed_texts"
             THEN [kind |-> "raised", error |-> "EmbeddingFailure",
                   index |-> IF Cardinality(DOMAIN index) > 0 THEN <<>>
                             ELSE index,
                   chain_set |-> FALSE]
             ELSE IF failure = "llm"
             THEN [kind |-> "raised", error |-> "LLMInterfaceFailure",
                   index |-> IndexAfterLoad(index, chunks_made),
                   chain_set |-> FALSE]
             ELSE [kind |-> "returned",
                   total_pages |-> doc.pages,
                   total_chunks |-> Len(chunks_made),
                   index |-> IndexAfterLoad(index, chunks_made),
                   chain_set |-> TRUE]

\* initialize_rag(document_path) on the service
InitializeRagRun(doc, failure) ==
    LET sys == InitializeSystem(doc, failure)
    IN  /\ rag_app' = TheApp
        /\ index' = sys.index
        /\ IF sys.kind = "returned"
           THEN /\ doc_count < MaxDocs
                /\ chain' = [retrieval_k |-> ConfigRetrievalK,
                             similarity_threshold |->
                                SomeThreshold(ConfigSimilarityThreshold)]
                /\ current_document_id' = NewDocumentId
                /\ doc_count' = doc_count + 1
           ELSE /\ chain' = NoChain
                /\ UNCHANGED <<current_document_id, doc_count>>
        /\ UNCHANGED <<storage, clock, ans_question, ans_trace, ans_outcome>>
        /\ UNCHANGED <<tpVars, retVars, ovVars, conVars>>

\* what initialize_rag returns or raises
InitializeRagOutcome(doc, failure) ==
    IF InitializeSystem(doc, failure).kind = "returned"
    THEN [kind |-> "returned", pages |-> PlaceholderPages,
          chunks |-> PlaceholderChunks]
    ELSE [kind |-> "raised", error |-> "ValueError: Failed to process document"]

\* a direct call of RAGService.initialize_rag
InitializeRag(doc, failure) ==
    /\ svc_outcome = NoCall
    /\ svc_call' = [op |-> "initialize_rag", document |-> doc]
    /\ svc_outcome' = InitializeRagOutcome(doc, failure)
    /\ InitializeRagRun(doc, failure)

\* MAX_UPLOAD_SIZE_MB and MAX_UPLOAD_SIZE_BYTES of part_b/main.py
MaxUploadSizeMb == 10
MaxUploadSizeBytes == MaxUploadSizeMb * 1024 * 1024

\* a name check that lets every file through
EndsWithAnything(s, suffix) == TRUE

\* str.endswith(suffix)
EndsWith(s, suffix) ==
    /\ Len(s) >= Len(suffix)
    /\ SubSeq(s, Len(s) - Len(suffix) + 1, Len(s)) = suffix

\* the uploads sent to the service: a document under a file name with a
\* content length in bytes
UploadNames == {<<"a", ".", "p", "d", "f">>, <<"a", ".", "P", "D", "F">>,
                <<"a", ".", "t", "x", "t">>, <<"p", "d", "f">>}
UploadSizes == {0, MaxUploadSizeBytes, MaxUploadSizeBytes + 1}
UploadFiles ==
    {[name |-> n, pages |-> d.pages, units |-> d.units, size |-> sz] :
        n \in UploadNames, d \in UploadDocs, sz \in UploadSizes}

\* POST /api/upload: the upload_document handler of part_b/main.py
UploadDocument(file, failure) ==
    /\ svc_outcome = NoCall
    /\ svc_call' = [op |-> "upload_document", file |-> file]
    /\ IF ~EndsWith(file.name, <<".", "p", "d", "f">>)
       THEN /\ svc_outcome' = [kind |-> "http", status |-> 400,
                               message |-> "Invalid file format"]
            /\ UNCHANGED <<storage, clock, chainVars, rag_app,
                           current_document_id, doc_count, index>>
            /\ UNCHANGED <<tpVars, retVars, ovVars, conVars>>
       ELSE IF file.size > MaxUploadSizeBytes
       THEN /\ svc_outcome' = [kind |-> "http", status |-> 413,
                               message |-> "File too large"]
            /\ UNCHANGED <<storage, clock, chainVars, rag_app,
                           current_document_id, doc_count, index>>
            /\ UNCHANGED <<tpVars, retVars, ovVars, conVars>>
       ELSE LET got == InitializeRagOutcome(file, failure)
            IN  /\ InitializeRagRun(file, failure)
                /\ svc_outcome' =
                     IF got.kind = "returned"
                     THEN [kind |-> "http", status |-> 200,
                           document_id |-> current_document_id',
                           pages |-> got.pages, chunks |-> got.chunks]
                     ELSE [kind |-> "http", status |-> 500,
                           message |-> "Failed to process document"]

\* no row of qa_records: what .first() gives for an id that is not stored
NoRecord == [none |-> TRUE]

\* a lookup that finds nothing
GetQaNothing(st, query_id) == NoRecord

\* QAStorage.get_qa(query_id)
GetQa(st, query_id) ==
    IF query_id \in DOMAIN st THEN st[query_id] ELSE NoRecord

\* a direct call of RAGService.get_answer
GetAnswer(query_id) ==
    /\ svc_outcome = NoCall
    /\ svc_call' = [op |-> "get_answer", query_id |-> query_id]
    /\ svc_outcome' = [kind |-> "returned", record |-> GetQa(storage, query_id)]
    /\ UNCHANGED <<storage, clock, chainVars, rag_app, current_document_id,
                   doc_count, index>>
    /\ UNCHANGED <<tpVars, retVars, ovVars, conVars>>

\* GET /api/answer/{query_id}: the get_answer handler of part_b/main.py
GetAnswerApi(query_id) ==
    /\ svc_outcome = NoCall
    /\ svc_call' = [op |-> "get_answer_api", query_id |-> query_id]
    /\ LET record == GetQa(storage, query_id)
       IN  svc_outcome' =
             IF record = NoRecord
             THEN [kind |-> "http", status |-> 404,
                   message |-> "Query ID not found"]
             ELSE [kind |-> "http", status |-> 200, record |-> record]
    /\ UNCHANGED <<storage, clock, chainVars, rag_app, current_document_id,
                   doc_count, index>>
    /\ UNCHANGED <<tpVars, retVars, ovVars, conVars>>

\* the caller has taken the outcome; the next request may start
ServiceReturn ==
    /\ svc_outcome # NoCall
    /\ svc_call' = NoCall
    /\ svc_outcome' = NoCall
    /\ ans_question' = <<>>
    /\ ans_trace' = <<>>
    /\ ans_outcome' = NoCall
    /\ UNCHANGED <<chain, rag_app, current_document_id, doc_count, storage,
                   clock, index>>
    /\ UNCHANGED <<tpVars, retVars, ovVars, conVars>>

\* the server process is started again: RAGService() opens the database file
\* with the rows it holds and has no RAG application yet
ServiceRestart ==
    /\ svc_outcome = NoCall
    /\ rag_app # NoApp
    /\ rag_app' = NoApp
    /\ chain' = NoChain
    /\ current_document_id' = NoDocument
    /\ UNCHANGED <<doc_count, storage, clock, index, svc_call, svc_outcome,
                   ans_question, ans_trace, ans_outcome>>
    /\ UNCHANGED <<tpVars, retVars, ovVars, conVars>>

InitService ==
    /\ rag_app = NoApp
    /\ current_document_id = NoDocument
    /\ doc_count = 0
    /\ storage = <<>>
    /\ clock = 0
    /\ index = <<>>
    /\ svc_call = NoCall
    /\ svc_outcome = NoCall

\* what the retriever and the generation service can do in one question
\* request; neither is reached without a chain
SvcRetrievals(q) ==
    IF chain = NoChain THEN {[kind |-> "raised", error |-> "RetrievalFailure"]}
    ELSE RetrieverOutcomes(q, chain.retrieval_k, chain.similarity_threshold)
SvcGenerations ==
    IF chain = NoChain THEN {[kind |-> "raised", error |-> "GenerationFailure"]}
    ELSE LLMOutcomes

\* a question request is taken while the table has room for its record
HasRoom(query_id) ==
    \/ Cardinality(DOMAIN storage) < MaxRecords
    \/ ~IsInitialized
    \/ query_id \in DOMAIN storage

\* ----------------------------------------- concurrent process_question calls
\* the threads or worker processes that call process_question at once
Callers == 1..MaxCallers

\* the step of caller c leaves the service object and the other calls alone
PQFrame ==
    /\ UNCHANGED <<rag_app, chain, current_document_id, doc_count, index,
                   svc_call, svc_outcome, ans_question, ans_trace,
                   ans_outcome>>
    /\ UNCHANGED <<tpVars, retVars, ovVars>>

\* caller c enters process_question(q, query_id): the is_initialized() test
\* and the storage.exists(query_id) test
PQCheck(c, q, query_id) ==
    /\ pq_pc[c] = "idle"
    /\ pq_args' = [pq_args EXCEPT ![c] = [question |-> q,
                                          query_id |-> query_id]]
    /\ IF ~IsInitialized
       THEN /\ pq_pc' = [pq_pc EXCEPT ![c] = "done"]
            /\ pq_outcome' = [pq_outcome EXCEPT ![c] =
                  [kind |-> "raised",
                   error |-> "RuntimeError: RAG system not initialized"]]
       ELSE IF Exists(storage, query_id)
       THEN /\ pq_pc' = [pq_pc EXCEPT ![c] = "done"]
            /\ pq_outcome' = [pq_outcome EXCEPT ![c] =
                  [kind |-> "raised",
                   error |-> "ValueError: Query ID already exists"]]
       ELSE /\ pq_pc' = [pq_pc EXCEPT ![c] = "answer"]
            /\ UNCHANGED pq_outcome
    /\ UNCHANGED <<pq_answer, storage, clock>>
    /\ PQFrame

\* "answer = self.rag_app.answer_question(question)"
PQAnswer(c, retrieval, llm) ==
    /\ pq_pc[c] = "answer"
    /\ LET got == AnswerQuestion(pq_args[c].question, retrieval, llm)
       IN  IF got.kind = "raised"
           THEN /\ pq_answer' = [pq_answer EXCEPT ![c] =
                                    <<"Error: ", got.error>>]
                /\ pq_pc' = [pq_pc EXCEPT ![c] = "save_error"]
           ELSE /\ pq_answer' = [pq_answer EXCEPT ![c] = got.text]
                /\ pq_pc' = [pq_pc EXCEPT ![c] = "save"]
    /\ UNCHANGED <<pq_args, pq_outcome, storage, clock>>
    /\ PQFrame

\* "record = self.storage.save_qa(..., status="completed")"
PQSave(c) ==
    /\ pq_pc[c] = "save"
    /\ LET saved == SaveQa(storage, pq_args[c].query_id, pq_args[c].question,
                           pq_answer[c], "completed")
       IN  IF saved.kind = "returned"
           THEN /\ storage' = saved.storage
                /\ clock' = clock + 1
                /\ pq_outcome' = [pq_outcome EXCEPT ![c] =
                      [kind |-> "returned", record |-> saved.record]]
                /\ pq_pc' = [pq_pc EXCEPT ![c] = "done"]
                /\ UNCHANGED pq_answer
           ELSE /\ pq_answer' = [pq_answer EXCEPT ![c] =
                                    <<"Error: ", saved.error>>]
                /\ pq_pc' = [pq_pc EXCEPT ![c] = "save_error"]
                /\ UNCHANGED <<storage, clock, pq_outcome>>
    /\ UNCHANGED pq_args
    /\ PQFrame

\* the except branch: "Try to save error state"
PQSaveError(c) ==
    /\ pq_pc[c] = "save_error"
    /\ LET saved == SaveQa(storage, pq_args[c].query_id, pq_args[c].question,
                           pq_answer[c], "error")
       IN  IF saved.kind = "returned"
           THEN /\ storage' = saved.storage
                /\ clock' = clock + 1
                /\ pq_outcome' = [pq_outcome EXCEPT ![c] =
                      [kind |-> "returned", record |-> saved.record]]
           ELSE /\ pq_outcome' = [pq_outcome EXCEPT ![c] =
                      [kind |-> "raised",
                       error |-> "RuntimeError: Failed to process question"]]
                /\ UNCHANGED <<storage, clock>>
    /\ pq_pc' = [pq_pc EXCEPT ![c] = "done"]
    /\ UNCHANGED <<pq_args, pq_answer>>
    /\ PQFrame

\* caller c has taken the outcome and may call again
PQReturn(c) ==
    /\ pq_pc[c] = "done"
    /\ pq_pc' = [pq_pc EXCEPT ![c] = "idle"]
    /\ pq_args' = [pq_args EXCEPT ![c] = NoCall]
    /\ pq_answer' = [pq_answer EXCEPT ![c] = <<>>]
    /\ pq_outcome' = [pq_outcome EXCEPT ![c] = NoCall]
    /\ UNCHANGED <<storage, clock>>
    /\ PQFrame

InitConcurrent ==
    /\ pq_pc = [c \in Callers |-> "idle"]
    /\ pq_args = [c \in Callers |-> NoCall]
    /\ pq_answer = [c \in Callers |-> <<>>]
    /\ pq_outcome = [c \in Callers |-> NoCall]

\* callers racing on custom ids; the service loads its document once, at
\* any point of the race
NextConcurrent ==
    \/ /\ svc_outcome = NoCall
       /\ rag_app = NoApp
       /\ \E doc \in {DocA, DocBlank} : InitializeRag(doc, "none")
    \/ \E c \in Callers, q \in SvcQuestions, query_id \in CustomIds :
          PQCheck(c, q, query_id)
    \/ \E c \in Callers :
          /\ pq_pc[c] = "answer"
          /\ \E retrieval \in SvcRetrievals(pq_args[c].question),
                llm \in SvcGenerations : PQAnswer(c, retrieval, llm)
    \/ \E c \in Callers : PQSave(c)
    \/ \E c \in Callers : PQSaveError(c)
    \/ \E c \in Callers : PQReturn(c)

\* the ids a stored answer is asked for: the custom ids, the first generated
\* id and one id that is never given out
GetIds == CustomIds \cup {<<"uuid", 0>>, <<"custom", 0>>}

NextService ==
    \/ /\ svc_outcome = NoCall
       /\ doc_count < MaxAskDocs
       /\ \E doc \in {DocA, DocBlank} : InitializeRag(doc, "none")
    \/ /\ svc_outcome = NoCall
       /\ \E q \in SvcQuestions, query_id \in {NoId} \cup CustomIds :
            /\ HasRoom(query_id)
            /\ \E retrieval \in SvcRetrievals(q), llm \in SvcGenerations :
                  ProcessQuestion(q, query_id, retrieval, llm)
    \/ /\ svc_outcome = NoCall
       /\ \E q \in SvcQuestions, query_id \in {NoId} \cup CustomIds :
            /\ HasRoom(query_id)
            /\ \E retrieval \in SvcRetrievals(q), llm \in SvcGenerations :
                  AskQuestion(q, query_id, retrieval, llm)
    \/ /\ svc_outcome = NoCall
       /\ \E query_id \in GetIds : GetAnswer(query_id)
    \/ /\ svc_outcome = NoCall
       /\ \E query_id \in GetIds : GetAnswerApi(query_id)
    \/ ServiceReturn
    \/ ServiceRestart

\* documents arriving at the service, directly and through POST /api/upload
NextUpload ==
    \/ /\ svc_outcome = NoCall
       /\ \E doc \in UploadDocs, failure \in InitFailures :
            InitializeRag(doc, failure)
    \/ /\ svc_outcome = NoCall
       /\ \E file \in UploadFiles, failure \in InitFailures :
            UploadDocument(file, failure)
    \/ ServiceReturn
    \/ ServiceRestart

NextTP ==
    \/ /\ tp_pc \in {"none", "config_error"}
       /\ \E cs \in Sizes, co \in Sizes : TextProcessorInit(cs, co)
    \/ /\ tp_pc = "ready"
       /\ \E t \in Texts, m \in {NoMeta} \cup [file_name : FileNames] :
            ProcessBegin(t, m)
    \/ ParagraphIter
    \/ SentenceIter
    \/ SizeIter
    \/ SizeReturn
    \/ SentenceReturn
    \/ ProcessFinish
    \/ ProcessReturn

\* construction, then _apply_overlap calls on the constructed processor
NextOverlap ==
    \/ /\ tp_pc \in {"none", "config_error"}
       /\ \E chunk_size \in Sizes, chunk_overlap \in Sizes :
              TextProcessorInit(chunk_size, chunk_overlap)
    \/ /\ tp_pc = "ready"
       /\ ov_result = NoOverlapCall
       /\ \E units \in UnitLists(processor.chunk_size) : ApplyOverlapCall(units)
    \/ ApplyOverlapReturn

Init ==
    /\ InitTP /\ InitRetriever /\ InitChain /\ InitOverlap /\ InitService
    /\ InitConcurrent

\* RAGChain: construction and answer() calls
Spec == Init /\ [][NextChain]_vars

\* VectorStoreRetriever: retrieve() calls
SpecRetriever == Init /\ [][NextRetriever]_vars

\* TextProcessor: construction and process() calls, step by step
SpecTP == Init /\ [][NextTP]_vars

\* RAGService and the API: questions and stored answers
SpecService == Init /\ [][NextService]_vars

\* RAGService: process_question calls interleaved step by step
SpecConcurrent == Init /\ [][NextConcurrent]_vars

\* RAGService and the API: document loading
SpecUpload == Init /\ [][NextUpload]_vars

SpecOverlap == Init /\ [][NextOverlap]_vars

\* process() is synchronous code: once called it keeps running
SpecTPFair == SpecTP /\ WF_vars(ProcessStep)

\* ------------------------------------------------------------------- claims
\* a string made of whitespace only (the empty string included)
AllSpace(s) == \A i \in 1..Len(s) : s[i] \in {" ", "\n", "\t", "\r"}

\* how often the last answer() call invoked a collaborator
CallCount(op) == Cardinality({i \in 1..Len(ans_trace) : ans_trace[i].op = op})

\* the last answer() call got at least one chunk from the retriever
RetrievedSome ==
    /\ ans_outcome # NoCall
    /\ ans_trace # <<>>
    /\ ans_trace[1].result.kind = "returned"
    /\ ans_trace[1].result.chunks # <<>>

\* the last answer() call got an empty sequence from the retriever
RetrievedNone ==
    /\ ans_outcome # NoCall
    /\ ans_trace # <<>>
    /\ ans_trace[1].result.kind = "returned"
    /\ ans_trace[1].result.chunks = <<>>

\* the lower-cased question holds a word of the injection catalogue
HasInjectionWord(q) == \E i \in 1..Len(q) : q[i] \in {"System:", "system:"}

\* C1: when retrieval returns at least one chunk and the question contains an
\* injection pattern, llm.generate is never invoked in that answer() call and
\* the returned answer is exactly the fixed safe message.
C1_InjectionNeverGenerates ==
    (RetrievedSome /\ HasInjectionWord(ans_question)) =>
        /\ CallCount("llm.generate") = 0
        /\ ans_outcome.kind = "returned"
        /\ ans_outcome.answer = SafeMessage

\* C2: answer() with an empty or whitespace-only question fails with the
\* empty-question error, having called retriever.retrieve and llm.generate
\* zero times.
C2_EmptyQuestionFailsFirst ==
    (ans_outcome # NoCall /\ AllSpace(ans_question)) =>
        /\ ans_outcome.kind = "raised"
        /\ ans_outcome.error = "ValueError: Question cannot be empty"
        /\ CallCount("retriever.retrieve") = 0
        /\ CallCount("llm.generate") = 0

C2_Witness ==
    /\ ans_outcome # NoCall
    /\ ans_question = <<" ", " ">>
    /\ ans_outcome.kind = "raised"

\* C3: when the retriever returns an empty sequence for a non-empty question,
\* answer() returns the fixed no-information answer with no chunks and
\* answer_generated = false, and neither the prompt builder nor llm.generate
\* is invoked.
C3_NoChunksFallback ==
    (RetrievedNone /\ ~AllSpace(ans_question)) =>
        /\ ans_outcome.kind = "returned"
        /\ ans_outcome.answer = NoInfoAnswer
        /\ ans_outcome.retrieved_chunks = <<>>
        /\ ans_outcome.metadata.answer_generated = FALSE
        /\ CallCount("_build_prompt") = 0
        /\ CallCount("llm.generate") = 0

C3_Witness ==
    /\ RetrievedNone
    /\ ans_question = <<"cost", " ", "hello">>
    /\ ans_outcome.kind = "returned"

\* C4: given that the index returns at most k candidates, retrieve() returns
\* at most k units and, when a threshold t is supplied, every returned unit
\* has similarity_score >= t.
C4_AtMostKAboveThreshold ==
    (ret_outcome # NoCall /\ ret_outcome.kind = "returned"
        /\ Len(ret_index) <= ret_args.k) =>
        /\ Len(ret_outcome.chunks) <= ret_args.k
        /\ ret_args.similarity_threshold.given =>
            \A i \in 1..Len(ret_outcome.chunks) :
                ret_outcome.chunks[i].similarity_score
                    >= ret_args.similarity_threshold.value

C4_Witness ==
    /\ ret_outcome # NoCall
    /\ ret_outcome.kind = "returned"
    /\ ret_args.similarity_threshold.given
    /\ Len(ret_index) = ret_args.k
    /\ Len(ret_outcome.chunks) >= 1
    /\ Len(ret_outcome.chunks) < Len(ret_index)

\* the candidates of the last retrieve() call that qualify, in index order
QualifyingCandidates ==
    LET t == ret_args.similarity_threshold
        Qualifies(c) == ~t.given \/ 10 - c.distance >= t.value
    IN  SelectSeq(ret_index, Qualifies)

\* C5: the result of retrieve() is exactly the subsequence, in the index's
\* rank order, of the candidates whose similarity 1 - distance is >= the
\* threshold; with no threshold every candidate is returned.
C5_ExactlyQualifyingInOrder ==
    (ret_outcome # NoCall /\ ret_outcome.kind = "returned") =>
        /\ Len(ret_outcome.chunks) = Len(QualifyingCandidates)
        /\ \A i \in 1..Len(ret_outcome.chunks) :
            /\ ret_outcome.chunks[i].content = QualifyingCandidates[i].doc.content
            /\ ret_outcome.chunks[i].metadata.section
                    = QualifyingCandidates[i].doc.section
            /\ ret_outcome.chunks[i].similarity_score
                    = 10 - QualifyingCandidates[i].distance
        /\ ~ret_args.similarity_threshold.given =>
                Len(ret_outcome.chunks) = Len(ret_index)

C5_Witness ==
    /\ ret_outcome # NoCall
    /\ ret_outcome.kind = "returned"
    /\ Len(ret_index) = 2
    /\ ret_index[1].doc # ret_index[2].doc
    /\ Len(ret_outcome.chunks) = 1
    /\ ret_outcome.chunks[1].similarity_score = 7

\* C6: constructing a TextProcessor with chunk_overlap >= chunk_size fails
\* with the configuration error and produces no processor.
C6_OverlapNotBelowSizeRejected ==
    (ctor_args # NoProcessor /\ ctor_args.chunk_overlap >= ctor_args.chunk_size) =>
        /\ tp_pc = "config_error"
        /\ processor = NoProcessor

C6_Witness ==
    /\ tp_pc = "config_error"
    /\ ctor_args.chunk_overlap = ctor_args.chunk_size

\* the configuration invariant of the data model
ValidConfig(p) ==
    /\ p # NoProcessor
    /\ p.chunk_size > 0
    /\ 0 <= p.chunk_overlap
    /\ p.chunk_overlap < p.chunk_size

\* C7: every constructed TextProcessor has chunk_size > 0 and
\* 0 <= chunk_overlap < chunk_size.
C7_ConstructedConfigValid == processor # NoProcessor => ValidConfig(processor)

\* a process() call is running or has ended
ProcessCalled == tp_pc \in {"paragraphs", "sentences", "by_size", "done", "empty_error"}

\* C8: for a text that is non-empty after trimming and a valid configuration,
\* process() returns (it does not raise and its loops finish), and every
\* iteration of the fixed-size splitter advances the start position.
C8_ProcessTerminates ==
    /\ (ProcessCalled /\ ~AllSpace(text) /\ ValidConfig(processor)) ~> (tp_pc = "done")
    /\ [][(SizeIter /\ ValidConfig(processor)) => size_start' > size_start]_vars

C8_Witness ==
    /\ tp_pc = "done"
    /\ ValidConfig(processor)
    /\ processor.chunk_size = 2
    /\ text = <<"a", "a", "a", ".">>

\* C9: for a text that is non-empty after trimming and a valid configuration,
\* process() returns at least one chunk and every chunk's content is
\* non-empty.
C9_ChunksNonEmpty ==
    (tp_pc = "done" /\ ~AllSpace(text) /\ ValidConfig(processor)) =>
        /\ Len(result) >= 1
        /\ \A i \in 1..Len(result) : result[i].content # <<>>

C9_Witness ==
    /\ tp_pc = "done"
    /\ ValidConfig(processor)
    /\ processor.chunk_overlap = 1
    /\ text = <<"a", "a", "a", ".">>
    /\ Len(result) = 2

\* C10: the chunk at position i (0-based) of the list returned by process()
\* has index i and metadata chunk_index i.
C10_IndicesSequential ==
    tp_pc = "done" =>
        \A i \in 1..Len(result) :
            /\ result[i].index = i - 1
            /\ result[i].metadata.chunk_index = i - 1

C10_Witness ==
    /\ tp_pc = "done"
    /\ Len(result) >= 3

\* C11: process() with an empty or whitespace-only text fails with the
\* empty-input error and returns no chunks; no splitting work is done.
C11_EmptyTextRejected ==
    (ProcessCalled /\ AllSpace(text)) =>
        /\ tp_pc = "empty_error"
        /\ result = NoResult
        /\ chunks = <<>>
        /\ paragraphs = <<>>

C11_Witness ==
    /\ tp_pc = "empty_error"
    /\ text = <<" ", "\n", "\n", " ">>

\* the characters of s that are not whitespace, in order
NonSpace(s) ==
    LET Keep(c) == c \notin {" ", "\n", "\t", "\r"} IN SelectSeq(s, Keep)

\* unit i of the returned list without its overlap prefix and separator
\* space; `chunks` holds the units as split, before overlap
Unpadded(i) ==
    IF i = 1 \/ processor.chunk_overlap = 0 THEN result[i].content
    ELSE LET prefix == IF Len(chunks[i - 1]) < processor.chunk_overlap
                       THEN Len(chunks[i - 1]) ELSE processor.chunk_overlap
         IN  SubSeq(result[i].content, prefix + 2, Len(result[i].content))

RECURSIVE UnpaddedFrom(_)
UnpaddedFrom(i) ==
    IF i > Len(result) THEN <<>> ELSE Unpadded(i) \o UnpaddedFrom(i + 1)

\* C12: the non-whitespace characters of the returned units, taken in index
\* order with each overlap prefix and separator space removed, are exactly
\* the non-whitespace characters of the input text.
C12_NoCharacterDropped ==
    (tp_pc = "done" /\ ValidConfig(processor)) =>
        NonSpace(UnpaddedFrom(1)) = NonSpace(text)

C12_Witness ==
    /\ tp_pc = "done"
    /\ ValidConfig(processor)
    /\ processor.chunk_size = 2
    /\ processor.chunk_overlap = 1
    /\ text = <<"a", ".", " ", ".">>
    /\ Len(result) = 2

\* every unit of a list is at most chunk_size long
AllWithinSize(units) ==
    \A i \in 1..Len(units) : Len(units[i]) <= processor.chunk_size

\* C13: before overlap is applied, every unit produced by paragraph packing,
\* sentence packing or fixed-size splitting is at most chunk_size long.
C13_UnitsWithinSize ==
    (ProcessCalled /\ ValidConfig(processor)) =>
        /\ AllWithinSize(chunks)
        /\ AllWithinSize(sent_chunks)
        /\ AllWithinSize(size_chunks)
        /\ Len(current_chunk) <= processor.chunk_size
        /\ Len(sent_current) <= processor.chunk_size

C13_Witness ==
    /\ tp_pc = "done"
    /\ ValidConfig(processor)
    /\ processor.chunk_size = 3
    /\ text = <<"a", "\n", "\n", "a">>
    /\ Len(chunks) = 2

\* the last n characters of s, or all of s when it is not longer than n
LastChars(s, n) == IF Len(s) <= n THEN s ELSE SubSeq(s, Len(s) - n + 1, Len(s))

\* C14: with overlap >= 1, the first returned unit is the first unit as
\* split, and unit i is S + " " + u_i where S is the last `overlap`
\* characters of the unit u_(i-1) as split (all of it when it is not longer):
\* the overlap is taken from the units before overlap, never from one that
\* already carries an overlap prefix.
C14_OverlapNotCascading ==
    (ov_result # NoOverlapCall /\ processor.chunk_overlap >= 1) =>
        /\ Len(ov_result.value) = Len(ov_units)
        /\ \A i \in 1..Len(ov_units) :
              ov_result.value[i] =
                 IF i = 1 THEN ov_units[1]
                 ELSE LastChars(ov_units[i - 1], processor.chunk_overlap)
                         \o <<" ">> \o ov_units[i]

C14_Witness ==
    /\ ov_result # NoOverlapCall
    /\ processor.chunk_overlap = 2
    /\ ov_units = << <<"a", ".">>, <<"a">>, <<".">> >>
    /\ ov_result.value[3] = <<"a", " ", ".">>

\* the chunks the retriever handed to the last answer() call
Retrieved == ans_trace[1].result.chunks

\* the llm.generate call of the last answer() run, if there is exactly one
GenerateCall ==
    ans_trace[CHOOSE i \in 1..Len(ans_trace) : ans_trace[i].op = "llm.generate"]

\* pat occurs in s as a contiguous run
Occurs(s, pat) ==
    \E i \in 0..(Len(s) - Len(pat)) : SubSeq(s, i + 1, i + Len(pat)) = pat

\* the question holds a domain keyword / a temporal trigger of the vocabulary
HasKeywordWord(q) == \E i \in 1..Len(q) : q[i] = "cost"
HasTemporalWord(q) == \E i \in 1..Len(q) : q[i] = "mimatai"

\* C15: for a question without an injection pattern and a non-empty
\* retrieval, llm.generate is called exactly once; its prompt carries the
\* off-topic note in front of the context exactly when the trimmed question
\* is shorter than 5 characters or holds no domain keyword, and carries the
\* temporal hint right after the question exactly when the question holds a
\* temporal trigger.
C15_GuardAnnotations ==
    (RetrievedSome /\ ~HasInjectionWord(ans_question)) =>
        /\ CallCount("llm.generate") = 1
        /\ LET prompt == GenerateCall.prompt
               off_topic == \/ CharLen(Strip(ans_question)) < 5
                            \/ ~HasKeywordWord(ans_question)
           IN  /\ off_topic =>
                    Occurs(prompt, OffTopicNote \o BuildContext(Retrieved))
               /\ ~off_topic => ~Occurs(prompt, <<OffTopicNote[1]>>)
               /\ HasTemporalWord(ans_question) =>
                    Occurs(prompt, ans_question \o TemporalHint)
               /\ ~HasTemporalWord(ans_question) =>
                    ~Occurs(prompt, <<TemporalHint[2]>>)
               /\ Occurs(prompt, BuildContext(Retrieved))
               /\ Occurs(prompt, ans_question)

\* a short temporal question: both annotations in one prompt
C15_Witness ==
    /\ RetrievedSome
    /\ ans_question = <<"mimatai">>
    /\ CallCount("llm.generate") = 1
    /\ Occurs(GenerateCall.prompt, OffTopicNote)
    /\ Occurs(GenerateCall.prompt, TemporalHint)
    /\ ans_outcome.kind = "returned"

\* the last answer() run called llm.generate and that call raised
GenerateRaised ==
    /\ ans_outcome # NoCall
    /\ CallCount("llm.generate") >= 1
    /\ GenerateCall.result.kind = "raised"

\* the last answer() run called retriever.retrieve and that call raised
RetrieveRaised ==
    /\ ans_outcome # NoCall
    /\ ans_trace # <<>>
    /\ ans_trace[1].result.kind = "raised"

\* C16: when llm.generate raises, answer() raises the same error, returns no
\* response and calls neither generate nor retrieve again; when
\* retriever.retrieve raises, answer() raises that error and llm.generate is
\* never called.
C16_FailurePropagates ==
    /\ GenerateRaised =>
          /\ ans_outcome = GenerateCall.result
          /\ CallCount("llm.generate") = 1
          /\ CallCount("retriever.retrieve") = 1
    /\ RetrieveRaised =>
          /\ ans_outcome = ans_trace[1].result
          /\ CallCount("llm.generate") = 0
          /\ CallCount("retriever.retrieve") = 1

C16_Witness ==
    /\ GenerateRaised
    /\ ans_outcome.kind = "raised"
    /\ ans_outcome.error = "GenerationFailure"
    /\ Len(Retrieved) = 2

\* the scores of a chunk list added up from position i on
RECURSIVE TotalFrom(_, _)
TotalFrom(cs, i) ==
    IF i > Len(cs) THEN 0 ELSE cs[i].similarity_score + TotalFrom(cs, i + 1)

\* C17: for a non-empty retrieval R and a generated text A the returned
\* record has question = the input, answer = A, retrieved_chunks = R in the
\* same order, chunks_retrieved = len(R), answer_generated = true and
\* avg_similarity = the mean of R's scores (kept as sum and count).
C17_ResponseRecord ==
    (RetrievedSome /\ CallCount("llm.generate") = 1
        /\ GenerateCall.result.kind = "returned") =>
        /\ ans_outcome.kind = "returned"
        /\ ans_outcome.question = ans_question
        /\ ans_outcome.answer = GenerateCall.result.text
        /\ ans_outcome.retrieved_chunks = Retrieved
        /\ ans_outcome.metadata.chunks_retrieved = Len(Retrieved)
        /\ ans_outcome.metadata.answer_generated = TRUE
        /\ ans_outcome.metadata.avg_similarity.sum = TotalFrom(Retrieved, 1)
        /\ ans_outcome.metadata.avg_similarity.count = Len(Retrieved)

C17_Witness ==
    /\ RetrievedSome
    /\ ans_outcome.kind = "returned"
    /\ Len(Retrieved) = 2
    /\ Retrieved[1].similarity_score > Retrieved[2].similarity_score
    /\ ans_outcome.metadata.avg_similarity.sum = 17

\* the step starts a question request (direct or through POST /api/ask)
QuestionCallStarts ==
    /\ svc_call = NoCall
    /\ svc_call' # NoCall
    /\ svc_call'.op \in {"process_question", "ask_question"}

\* the request started by the step is refused as a duplicate id
RefusedAsDuplicate ==
    IF svc_call'.op = "process_question"
    THEN svc_outcome' = [kind |-> "raised",
                         error |-> "ValueError: Query ID already exists"]
    ELSE svc_outcome' = [kind |-> "http", status |-> 400,
                         message |-> "Invalid query ID"]

\* the step neither runs the RAG chain nor touches the table
NothingAskedNothingStored ==
    /\ storage' = storage
    /\ clock' = clock
    /\ ans_question' = ans_question
    /\ ans_trace' = ans_trace
    /\ ans_outcome' = ans_outcome

\* C18 as stated: a question request with a custom query_id that already has
\* a record is refused with ValueError (HTTP 400 'Invalid query ID'), the RAG
\* system is not invoked and the table is left as it was.
C18_DuplicateIdRefused ==
    [][(QuestionCallStarts /\ svc_call'.query_id \in DOMAIN storage) =>
          (RefusedAsDuplicate /\ NothingAskedNothingStored)]_vars

\* C18, amended: on an initialized service, a question request with a custom
\* query_id that already has a record is refused with ValueError (HTTP 400
\* 'Invalid query ID'), the RAG system is not invoked, and the existing
\* record and the number of records are left as they were.
C18_DuplicateIdRefusedWhenInitialized ==
    [][(QuestionCallStarts /\ svc_call'.query_id \in DOMAIN storage
            /\ rag_app # NoApp) =>
          (RefusedAsDuplicate /\ NothingAskedNothingStored)]_vars

C18_Witness ==
    /\ svc_call # NoCall
    /\ svc_call.op = "process_question"
    /\ svc_call.query_id \in DOMAIN storage
    /\ storage[svc_call.query_id].status = "completed"
    /\ svc_outcome = [kind |-> "raised",
                      error |-> "ValueError: Query ID already exists"]
    /\ ans_outcome = NoCall

\* the request started by the step is refused as not initialized
RefusedAsNotInitialized ==
    IF svc_call'.op = "process_question"
    THEN svc_outcome' = [kind |-> "raised",
                         error |-> "RuntimeError: RAG system not initialized"]
    ELSE svc_outcome' = [kind |-> "http", status |-> 400,
                         message |-> "RAG system not initialized"]

\* C19: while no RAG application is loaded, every question request is
\* refused (RuntimeError from process_question, HTTP 400 'RAG system not
\* initialized' at the API) without running the RAG chain and without adding
\* or changing a record.
C19_UninitializedRefused ==
    [][(QuestionCallStarts /\ rag_app = NoApp) =>
          (RefusedAsNotInitialized /\ NothingAskedNothingStored)]_vars

C19_Witness ==
    /\ svc_call # NoCall
    /\ svc_call.op = "ask_question"
    /\ rag_app = NoApp
    /\ DOMAIN storage # {}
    /\ svc_outcome = [kind |-> "http", status |-> 400,
                      message |-> "RAG system not initialized"]
    /\ ans_outcome = NoCall

\* the record the last question request returned
ReturnedRecord == svc_outcome.record

\* the last question request ran the RAG chain and returned a record
AnsweredByChain ==
    /\ svc_call # NoCall
    /\ svc_call.op \in {"process_question", "ask_question"}
    /\ ans_outcome # NoCall
    /\ \/ svc_outcome.kind = "returned"
       \/ svc_outcome.kind = "http" /\ svc_outcome.status = 200

\* C20: when the retrieval or the generation service raises inside the RAG
\* chain, the record of that request is stored with status "error"; a record
\* is stored with status "completed" only when the chain produced an answer.
C20_ChainFailureStoredAsError ==
    AnsweredByChain =>
        /\ (RetrieveRaised \/ GenerateRaised) =>
              ReturnedRecord.status = "error"
        /\ ReturnedRecord.status = "completed" =>
              ans_outcome.kind = "returned"

\* the step is one iteration of the paragraph loop over a non-blank paragraph
ParagraphTaken ==
    /\ tp_pc = "paragraphs"
    /\ paragraphs # <<>>
    /\ Strip(Head(paragraphs)) # <<>>
    /\ paragraphs' = Tail(paragraphs)

\* the step hands the paragraph to sentence splitting, buffer flushed first
RoutedToSentences ==
    /\ tp_pc' = "sentences"
    /\ current_chunk' = <<>>
    /\ chunks' = IF current_chunk = <<>> THEN chunks
                 ELSE Append(chunks, current_chunk)

\* the step leaves the paragraph at the end of the working buffer
KeptInBuffer ==
    /\ tp_pc' = "paragraphs"
    /\ LastChars(current_chunk', Len(Strip(Head(paragraphs))))
          = Strip(Head(paragraphs))

\* C24 as stated: a paragraph is routed to sentence splitting (buffer flushed
\* first) exactly when its trimmed length is at or above chunk_size; shorter
\* paragraphs go through the greedy buffer.
C24_RoutedAtOrAboveSize ==
    [][ParagraphTaken =>
          IF Len(Strip(Head(paragraphs))) >= processor.chunk_size
          THEN RoutedToSentences ELSE KeptInBuffer]_vars

\* C24, amended: a paragraph is routed to sentence splitting (buffer flushed
\* first) exactly when its trimmed length is strictly above chunk_size; a
\* paragraph of exactly chunk_size characters, like every shorter one, goes
\* through the greedy buffer.
C24_RoutedAboveSize ==
    [][ParagraphTaken =>
          IF Len(Strip(Head(paragraphs))) > processor.chunk_size
          THEN RoutedToSentences ELSE KeptInBuffer]_vars

\* a paragraph of exactly chunk_size characters sits in the buffer
C24_Witness ==
    /\ tp_pc = "paragraphs"
    /\ processor.chunk_size = 2
    /\ text = <<"a", ".", "\n", "\n">>
    /\ paragraphs = <<>>
    /\ current_chunk = <<"a", ".">>
    /\ chunks = <<>>

\* positions of the calls of one collaborator in the last answer() run
CallsOf(op) == {i \in 1..Len(ans_trace) : ans_trace[i].op = op}

\* C25: within one answer() call retriever.retrieve is called at most once,
\* llm.generate at most once and only after retrieve returned a non-empty
\* list, and no collaborator is called after llm.generate.
C25_LinearSteps ==
    /\ Cardinality(CallsOf("retriever.retrieve")) <= 1
    /\ Cardinality(CallsOf("llm.generate")) <= 1
    /\ \A g \in CallsOf("llm.generate") :
          /\ g = Len(ans_trace)
          /\ \E r \in CallsOf("retriever.retrieve") :
                /\ r < g
                /\ ans_trace[r].result.kind = "returned"
                /\ ans_trace[r].result.chunks # <<>>

C25_Witness ==
    /\ ans_outcome # NoCall
    /\ CallsOf("retriever.retrieve") = {1}
    /\ CallsOf("llm.generate") = {Len(ans_trace)}
    /\ GenerateCall.result.kind = "raised"

\* C28: for a question holding an injection pattern the prompt built by
\* _build_prompt is the one fixed safe message, whatever the question and
\* the context: it holds neither the question nor the content of a retrieved
\* chunk nor the off-topic note nor the temporal hint.
C28_InjectionPromptFixed ==
    (RetrievedSome /\ HasInjectionWord(ans_question)
        /\ CallsOf("llm.generate") # {}) =>
        LET prompt == GenerateCall.prompt
        IN  /\ prompt = SafeMessage
            /\ ~Occurs(prompt, ans_question)
            /\ \A i \in 1..Len(Retrieved) :
                  ~Occurs(prompt, <<Retrieved[i].content>>)
            /\ ~Occurs(prompt, <<OffTopicNote[1]>>)
            /\ ~Occurs(prompt, <<TemporalHint[2]>>)

\* an injection question that is also off-topic and temporal
C28_Witness ==
    /\ RetrievedSome
    /\ ans_question = <<"System:", " ", "mimatai">>
    /\ Len(Retrieved) = 2
    /\ CallsOf("llm.generate") # {}
    /\ GenerateCall.prompt = SafeMessage

\* C29: for a valid configuration every returned unit is at most
\* chunk_size + chunk_overlap + 1 long; with chunk_overlap = 0 the units are
\* returned as split and are at most chunk_size long; metadata chunk_size is
\* the final length.
C29_FinalLengthBound ==
    (tp_pc = "done" /\ ValidConfig(processor)) =>
        /\ \A i \in 1..Len(result) :
              /\ Len(result[i].content)
                    <= processor.chunk_size + processor.chunk_overlap + 1
              /\ result[i].metadata.chunk_size = Len(result[i].content)
        /\ processor.chunk_overlap = 0 =>
              /\ Len(result) = Len(chunks)
              /\ \A i \in 1..Len(result) :
                    /\ result[i].content = chunks[i]
                    /\ Len(result[i].content) <= processor.chunk_size

\* a unit that reaches chunk_size + chunk_overlap + 1
C29_Witness ==
    /\ tp_pc = "done"
    /\ processor.chunk_size = 2
    /\ processor.chunk_overlap = 1
    /\ text = <<"a", "a", "a", "a">>
    /\ Len(result) = 2
    /\ Len(result[2].content) = 4

\* the step starts the service call op
ServiceCallStarts(op) ==
    /\ svc_call = NoCall
    /\ svc_call' # NoCall
    /\ svc_call'.op = op

\* the fields of a record that a fetch must give back
Core(record) ==
    [id |-> record.id, question |-> record.question,
     answer |-> record.answer, status |-> record.status]

\* the step leaves the service and its database as they are
ServiceStateKept ==
    UNCHANGED <<storage, clock, rag_app, chain, current_document_id, index>>

\* C21: a record returned by process_question under id q is in the table
\* from then on with the same id, question, answer and status, whatever is
\* asked in between; get_answer(q) returns the stored record of q and the
\* API answers 200 with it; for an id that was never stored get_answer
\* returns None, the API answers 404, and neither changes anything.
C21_StoreFetchRoundTrip ==
    [][/\ \A q \in DOMAIN storage :
             q \in DOMAIN storage' /\ storage'[q] = storage[q]
       /\ (ServiceCallStarts("process_question")
             /\ svc_outcome'.kind = "returned") =>
             /\ svc_outcome'.record.id \in DOMAIN storage'
             /\ Core(storage'[svc_outcome'.record.id])
                   = Core(svc_outcome'.record)
       /\ ServiceCallStarts("get_answer") =>
             /\ ServiceStateKept
             /\ IF svc_call'.query_id \in DOMAIN storage
                THEN /\ svc_outcome'.record # NoRecord
                     /\ svc_outcome'.record.id = svc_call'.query_id
                     /\ Core(svc_outcome'.record)
                           = Core(storage[svc_call'.query_id])
                ELSE svc_outcome'.record = NoRecord
       /\ ServiceCallStarts("get_answer_api") =>
             /\ ServiceStateKept
             /\ IF svc_call'.query_id \in DOMAIN storage
                THEN /\ svc_outcome'.status = 200
                     /\ Core(svc_outcome'.record)
                           = Core(storage[svc_call'.query_id])
                ELSE svc_outcome'.status = 404
      ]_vars

\* a record is fetched after a later question was stored
C21_Witness ==
    /\ svc_call # NoCall
    /\ svc_call.op = "get_answer"
    /\ svc_outcome.record # NoRecord
    /\ svc_outcome.record.id = svc_call.query_id
    /\ \E other \in DOMAIN storage :
          storage[other].timestamp > svc_outcome.record.timestamp

\* the last four characters of the file name are '.pdf'
NamedPdf(name) ==
    /\ Len(name) >= 4
    /\ name[Len(name) - 3] = "."
    /\ name[Len(name) - 2] = "p"
    /\ name[Len(name) - 1] = "d"
    /\ name[Len(name)] = "f"

\* the step starts an upload that is not a PDF by name or is over the size
UploadRejected ==
    /\ ServiceCallStarts("upload_document")
    /\ \/ ~NamedPdf(svc_call'.file.name)
       \/ svc_call'.file.size > MaxUploadSizeBytes

LoadedDocument ==
    IF svc_call.op = "upload_document" THEN svc_call.file
    ELSE svc_call.document

\* the last call loaded a document and reported success
LoadSucceeded ==
    /\ svc_call # NoCall
    /\ svc_call.op \in {"initialize_rag", "upload_document"}
    /\ \/ svc_outcome.kind = "returned"
       \/ svc_outcome.kind = "http" /\ svc_outcome.status = 200

\* C23: on a successful load the (pages, chunks) pair returned by
\* initialize_rag, and reported by the upload response, is the page count of
\* the document and the number of chunks made of it, which is the number of
\* entries the index holds for it.
C23_ReportedCountsAreTheDocuments ==
    LoadSucceeded =>
        /\ svc_outcome.pages = LoadedDocument.pages
        /\ svc_outcome.chunks = Cardinality(DOMAIN index)
        /\ svc_outcome.chunks =
              InitializeSystem(LoadedDocument, "none").total_chunks

\* the step is an initialize_rag call, direct or from an upload, that fails
LoadFails ==
    /\ \/ ServiceCallStarts("initialize_rag")
       \/ ServiceCallStarts("upload_document")
    /\ \/ svc_outcome'.kind = "raised"
       \/ svc_outcome'.kind = "http" /\ svc_outcome'.status = 500

\* C26: is_initialized() is true only if rag_app.rag_chain is set, and an
\* initialize_rag call that fails leaves is_initialized() and the chain as
\* they were before the call.
C26_InitializedOnlyWithChain ==
    [][/\ IsInitialized' => chain' # NoChain
       /\ LoadFails => /\ IsInitialized' = IsInitialized
                       /\ chain' = chain
      ]_vars

\* the step is a successful load of a document
LoadSucceeds ==
    /\ \/ ServiceCallStarts("initialize_rag")
       \/ ServiceCallStarts("upload_document")
    /\ \/ svc_outcome'.kind = "returned"
       \/ svc_outcome'.kind = "http" /\ svc_outcome'.status = 200

\* the chunks segmentation makes of a document
ChunksOf(doc) ==
    MakeChunks(ApplyOverlap(doc.units, ConfigChunkOverlap),
               [file_name |-> doc.name])

\* C30: after a successful initialize_system the index holds exactly the
\* chunks of the document just loaded, one entry per chunk under the id
\* chunk_<index>, nothing of an earlier document, and no id was added
\* twice; nothing but a load changes the index.
C30_IndexIsLastDocument ==
    [][/\ LoadSucceeds =>
             LET doc == IF svc_call'.op = "upload_document"
                        THEN svc_call'.file ELSE svc_call'.document
                 cs == ChunksOf(doc)
             IN  /\ DOMAIN index' = {<<"chunk", cs[i].index>> : i \in 1..Len(cs)}
                 /\ Cardinality(DOMAIN index') = Len(cs)
                 /\ \A i \in 1..Len(cs) :
                       index'[<<"chunk", cs[i].index>>] = cs[i].content
       /\ index' # index =>
             \/ ServiceCallStarts("initialize_rag")
             \/ ServiceCallStarts("upload_document")
      ]_vars

\* a second document with fewer chunks has been loaded
C30_Witness ==
    /\ svc_call # NoCall
    /\ svc_call.op = "initialize_rag"
    /\ svc_outcome.kind = "returned"
    /\ svc_call.document = DocA
    /\ current_document_id = <<"doc", 2>>
    /\ DOMAIN index = {<<"chunk", 0>>}

\* the step ends caller c's process_question call
CallEnds(c) == pq_outcome[c] = NoCall /\ pq_outcome'[c] # NoCall

\* C27: however process_question calls with one custom query_id interleave,
\* a stored row is never replaced or removed, a call returns a record only
\* in the step that first stores the row of its id (the record of its own
\* question), and a call that ends when the id is already stored ends in an
\* error; so no two calls with one id both hold a returned record.
C27_OneWriterPerId ==
    [][/\ \A id \in DOMAIN storage :
             id \in DOMAIN storage' /\ storage'[id] = storage[id]
       /\ \A c \in Callers :
             CallEnds(c) =>
                IF pq_args'[c].query_id \in DOMAIN storage
                THEN pq_outcome'[c].kind = "raised"
                ELSE pq_outcome'[c].kind = "returned" =>
                        /\ storage'[pq_args'[c].query_id] = pq_outcome'[c].record
                        /\ pq_outcome'[c].record.id = pq_args'[c].query_id
                        /\ pq_outcome'[c].record.question = pq_args'[c].question
       /\ \A c, d \in Callers :
             (/\ c # d
              /\ pq_outcome'[c] # NoCall
              /\ pq_outcome'[d] # NoCall
              /\ pq_args'[c].query_id = pq_args'[d].query_id
              /\ pq_outcome'[c].kind = "returned") =>
                 pq_outcome'[d].kind = "raised"
      ]_vars

\* two calls passed the existence check before either saved: one holds the
\* record, the other's save and error-state save were both refused
C27_Witness ==
    \E c, d \in Callers :
        /\ c # d
        /\ pq_pc[c] = "done"
        /\ pq_pc[d] = "done"
        /\ pq_args[c].query_id = pq_args[d].query_id
        /\ pq_args[c].question # pq_args[d].question
        /\ pq_outcome[c].kind = "returned"
        /\ pq_outcome[d] = [kind |-> "raised",
                            error |-> "RuntimeError: Failed to process question"]
        /\ storage[pq_args[c].query_id].question = pq_args[c].question

====
